---- MODULE Spec2Model ----
(***************************************************************************)
(* Model of pyIslam/praytimes.py: the PrayerConf and Prayer classes.       *)
(*                                                                         *)
(* Real numbers are fixed-point integers:                                  *)
(*   - a degree value is an integer number of millidegrees;                *)
(*   - a radian value, a sine, a cosine, a tangent and every other         *)
(*     dimensionless real is an integer number of 1/Unit;                  *)
(*   - a decimal-hour value is an integer number of 1/HourUnit hours       *)
(*     (a tenth of a second), a shift is a number of tenths of a second;   *)
(*   - a timezone is an integer number of millihours.                      *)
(* Every product stays below 2^31.                                         *)
(***************************************************************************)
EXTENDS Integers, Sequences, FiniteSets

Unit == 100 * 100
HourUnit == 36 * 1000
MilliDeg == 10 * 100

Abs(x) == IF x < 0 THEN -x ELSE x

(***************************************************************************)
(* math.sqrt, math.atan, math.tan, math.pi (Python's math module), on      *)
(* fixed-point arguments.                                                  *)
(***************************************************************************)
RECURSIVE NewtonSqrt(_, _)
NewtonSqrt(n, x) ==
    IF (x + n \div x) \div 2 >= x THEN x
    ELSE NewtonSqrt(n, (x + n \div x) \div 2)

\* sqrt(v) of v >= 0 (1/Unit): the floor of the square root of v * Unit
sqrt(v) == IF v = 0 THEN 0 ELSE NewtonSqrt(v * Unit, 2 * Unit)

pi == 31416

\* sin and cos of a radian value 0 <= x <= pi/2, by their Taylor series
Sin0(x) ==
    LET x2 == (x * x) \div Unit
        t4 == Unit - x2 \div 72
        t3 == Unit - ((x2 * t4) \div Unit) \div 42
        t2 == Unit - ((x2 * t3) \div Unit) \div 20
        t1 == Unit - ((x2 * t2) \div Unit) \div 6
    IN  (x * t1) \div Unit

Cos0(x) ==
    LET x2 == (x * x) \div Unit
        t4 == Unit - x2 \div 56
        t3 == Unit - ((x2 * t4) \div Unit) \div 30
        t2 == Unit - ((x2 * t3) \div Unit) \div 12
    IN  Unit - ((x2 * t2) \div Unit) \div 2

\* atan of 0 <= x <= 1 by the polynomial of Abramowitz & Stegun 4.4.47
Atan0(x) ==
    LET x2 == (x * x) \div Unit
        h4 == 2084
        h3 == (h4 * x2) \div Unit - 8513
        h2 == (h3 * x2) \div Unit + 18014
        h1 == (h2 * x2) \div Unit - 33030
        h0 == (h1 * x2) \div Unit + 99987
    IN  (x * h0) \div 100000

RECURSIVE atan(_)
atan(x) ==
    IF x < 0 THEN -atan(-x)
    ELSE IF x > Unit THEN 2 * Atan0(Unit) - Atan0((Unit * Unit) \div x)
    ELSE Atan0(x)

\* tan of a radian value -pi/2 <= a <= pi/2 (every angle atan returns); like
\* math.tan it never fails, and is huge where the cosine vanishes
tanOf(s, c) == IF c <= 0 THEN Unit * Unit ELSE (s * Unit) \div c

tan(a) ==
    IF a < 0 THEN -tanOf(Sin0(-a), Cos0(-a)) ELSE tanOf(Sin0(a), Cos0(a))

\* (180 / pi) * r : a radian value in millidegrees
Degrees(r) == (r * 57296) \div Unit

(***************************************************************************)
(* pyIslam.baselib: dsin, dcos (sine and cosine of a degree value) and     *)
(* gregorianToJulianDay.                                                   *)
(***************************************************************************)
Radians(d) == (d * 17453) \div 100000

dsin(d) ==
    LET a == d % (360 * MilliDeg)
    IN  IF a <= 90 * MilliDeg THEN Sin0(Radians(a))
        ELSE IF a <= 180 * MilliDeg THEN Sin0(Radians(180 * MilliDeg - a))
        ELSE IF a <= 270 * MilliDeg THEN -Sin0(Radians(a - 180 * MilliDeg))
        ELSE -Sin0(Radians(360 * MilliDeg - a))

dcos(d) == dsin(d + 90 * MilliDeg)

\* gregorianToJulianDay(dat), in half days; a date is the number of days
\* from 2000-01-01, whose Julian Day is 2451544.5
gregorianToJulianDay(dat) == 4903089 + 2 * dat

(***************************************************************************)
(* pyIslam.hijri: HijriDate.getHijri(dat, correction_val).month, for the   *)
(* days of the year 2000.  HijriMonthStarts are the first days of the      *)
(* Hijri months from Ramadan 1420 to Shawwal 1421.                         *)
(***************************************************************************)
HijriMonthStarts ==
    << <<-23, 9>>, <<8, 10>>, <<37, 11>>, <<67, 12>>, <<96, 1>>, <<126, 2>>,
       <<155, 3>>, <<185, 4>>, <<214, 5>>, <<244, 6>>, <<273, 7>>, <<303, 8>>,
       <<332, 9>>, <<362, 10>> >>

HijriMonth(dat, correction_val) ==
    LET d == dat + correction_val
        i == CHOOSE k \in DOMAIN HijriMonthStarts :
                 /\ HijriMonthStarts[k][1] <= d
                 /\ \/ k = Len(HijriMonthStarts)
                    \/ d < HijriMonthStarts[k + 1][1]
    IN  HijriMonthStarts[i][2]

(***************************************************************************)
(* Values and outcomes.                                                    *)
(***************************************************************************)
null == [class |-> "NoneType"]

\* the None of the zenith table (Umm al-Qura has no Ishaa zenith)
None == -1

\* a real-valued expression either has a value or raises
Val(v) == [exc |-> "none", val |-> v]
Exc(e) == [exc |-> e, val |-> 0]

\* what a call does: it returns None, returns a time object, or raises
Done == [kind |-> "ok"]
Raised(e) == [kind |-> e]

\* datetime.time(hour, minute, second)
time(hour, minute, second) ==
    IF hour \in 0..23 /\ minute \in 0..59 /\ second \in 0..59
    THEN [kind |-> "time", hour |-> hour, minute |-> minute, second |-> second]
    ELSE Raised("ValueError")

(***************************************************************************)
(* class PrayerConf                                                        *)
(***************************************************************************)
sherookZenith == 90833
maghrebZenith == 90833

zeniths ==
    << <<108000, 108000>>,    \* 1 = University of Islamic Sciences, Karachi
       <<108000, 107000>>,    \* 2 = Muslim World League
       <<109500, 107500>>,    \* 3 = Egyptian General Authority of Survey
       <<108500, None>>,      \* 4 = Umm al-Qura University, Makkah
       <<105000, 105000>> >>  \* 5 = Islamic Society of North America

\* the wrong default row: zeniths.get(zenith_ref, zeniths[1])
zenithsGetFirstRow(zenith_ref) ==
    IF zenith_ref \in DOMAIN zeniths THEN zeniths[zenith_ref] ELSE zeniths[1]

\* zeniths.get(zenith_ref, zeniths[3])
zenithsGet(zenith_ref) ==
    IF zenith_ref \in DOMAIN zeniths THEN zeniths[zenith_ref] ELSE zeniths[3]

\* d / 15: the hours (1/HourUnit) the sun takes to move d millidegrees
hoursOfDegrees(d) == (d * (HourUnit \div 3000)) \div 5

asrMadhab(asr_madhab) == IF asr_madhab = 2 THEN asr_madhab ELSE 1

PrayerConf(longitude, latitude, timezone, zenith_ref, asr_madhab, enable_summer_time) ==
    LET middleLongitude == timezone * 15
    IN  [class |-> "PrayerConf",
         longitude |-> longitude,
         latitude |-> latitude,
         timezone |-> timezone,
         sherookZenith |-> sherookZenith,
         maghrebZenith |-> maghrebZenith,
         asrMadhab |-> asrMadhab(asr_madhab),
         middleLongitude |-> middleLongitude,
         longitudeDifference |-> hoursOfDegrees(middleLongitude - longitude),
         summerTime |-> enable_summer_time,
         fajrZenith |-> zenithsGet(zenith_ref)[1],
         ishaaZenith |-> zenithsGet(zenith_ref)[2]]

(***************************************************************************)
(* class Prayer.  c is the PrayerConf the engine refers to (self.__conf),  *)
(* p the engine's own fields (self.__date, self.__correction_val).         *)
(***************************************************************************)
\* a bound off by one: range(-2, 4)
correctionValidOffByOne(correction_val) == correction_val \in -2..3

\* correction_val in range(-2, 3)
correctionValid(correction_val) == correction_val \in -2..2

Prayer(dat, correction_val) ==
    [class |-> "Prayer", date |-> dat, correction_val |-> correction_val]

\* n = gregorianToJulianDay(self.__date) - 2451544.5
daysFromEpoch(p) == (gregorianToJulianDay(p.date) - 4903089) \div 2

\* g = 357.528 + 0.9856003 * n
meanAnomaly(n) == 357528 + 985 * n + (6003 * n) \div 10000

\* x / sqrt(-x * x + 1), which raises outside -1 < x < 1
overSqrtOf(x, q) ==
    IF q = 0 THEN Exc("ZeroDivisionError") ELSE Val((x * Unit) \div q)

overSqrt(x) ==
    IF Abs(x) > Unit THEN Exc("ValueError")
    ELSE overSqrtOf(x, sqrt(Unit - (x * x) \div Unit))

\* __equationOfTime, in thousandths of a minute
equationOfTimeR(c, lamda) ==
    LET r == (53 * dsin(4 * lamda)) \div 10000
             + (14 * dsin(6 * lamda)) \div 100000
             - (24680 * dsin(2 * lamda)) \div 100000
    IN  (c + r) * 4

equationOfTimeC(n, c) == equationOfTimeR(c, 280470 + meanAnomaly(n) - 357528 + c)

equationOfTimeG(n, g) ==
    equationOfTimeC(n, (19148 * dsin(g)) \div 100000 + (2 * dsin(2 * g)) \div 1000
                       + (3 * dsin(3 * g)) \div 100000)

equationOfTime(p) == equationOfTimeG(daysFromEpoch(p), meanAnomaly(daysFromEpoch(p)))

\* __sunDeclination, in millidegrees
sunDeclinationG(n, g) ==
    LET epsilon == 23440 - (4 * n) \div 10000
        l == 280466 + 985 * n + (6474 * n) \div 10000
        lamda == l + (1915 * dsin(g)) \div Unit + (2 * dsin(2 * g)) \div 1000
    IN  Degrees(atan(overSqrt((dsin(epsilon) * dsin(lamda)) \div Unit).val))

sunDeclination(p) == sunDeclinationG(daysFromEpoch(p), meanAnomaly(daysFromEpoch(p)))

\* 90 - (180 / pi) * atan(x), without the quarter turn 2 * atan(1)
asrZenithOfTanNoQuarterTurn(madhab, tana) ==
    IF tana = 0 THEN Exc("ZeroDivisionError")
    ELSE Val(90 * MilliDeg
             - Degrees(atan(madhab * Unit + (Unit * Unit) \div tana)))

\* __asrZenith, in millidegrees
asrZenithOfTan(madhab, tana) ==
    IF tana = 0 THEN Exc("ZeroDivisionError")
    ELSE Val(90 * MilliDeg
             - Degrees(atan(madhab * Unit + (Unit * Unit) \div tana)
                       + 2 * atan(Unit)))

asrZenithOf(madhab, t) ==
    IF t.exc # "none" THEN t ELSE asrZenithOfTan(madhab, tan(atan(t.val)))

\* x / sqrt(-x * x + 1) for x the sine of the sun's altitude at noon
noonAltitude(latitude, delta) ==
    overSqrt((dsin(latitude) * dsin(delta)) \div Unit
             + (dcos(latitude) * dcos(delta)) \div Unit)

asrZenithAt(latitude, madhab, delta) ==
    asrZenithOf(madhab, noonAltitude(latitude, delta))

asrZenith(c, p) == asrZenithAt(c.latitude, c.asrMadhab, sunDeclination(p))

\* __dohrTime (Dohr time for internal use), in 1/HourUnit hours
dohrHours(c, p) ==
    12 * HourUnit + c.longitudeDifference
    + (equationOfTime(p) * (HourUnit \div 1000)) \div 60

\* __prayerTime(zenith), in 1/HourUnit hours
prayerTimeOf(t) ==
    IF t.exc # "none" THEN t
    ELSE Val(hoursOfDegrees(Degrees(atan(t.val) + pi \div 2)))

prayerTimeS(num, den) ==
    IF den = 0 THEN Exc("ZeroDivisionError")
    ELSE IF Abs(num) > Abs(den) THEN Exc("ValueError")
    ELSE prayerTimeOf(overSqrt(-((num * Unit) \div den)))

prayerTimeAt(latitude, zenith, delta) ==
    prayerTimeS(dcos(zenith) - (dsin(latitude) * dsin(delta)) \div Unit,
                (dcos(latitude) * dcos(delta)) \div Unit)

prayerTime(c, p, zenith) == prayerTimeAt(c.latitude, zenith, sunDeclination(p))

\* no check of the shift at all
isNumericUnchecked(shift) == shift.type \in {"int", "float", "str"}

\* isinstance(shift, float) or isinstance(shift, int)
isNumeric(shift) == shift.type \in {"int", "float"}

\* the floors of __hoursToTime: hours is val + shift / 3600
floorHours(hours) == hours \div HourUnit
floorMinutes(hours) == ((hours % HourUnit) * 60) \div HourUnit

\* the seconds rounded to the nearest second instead of floored
roundSeconds(hours) ==
    ((((hours % HourUnit) * 60) % HourUnit) * 60 + HourUnit \div 2) \div HourUnit

floorSeconds(hours) == ((((hours % HourUnit) * 60) % HourUnit) * 60) \div HourUnit

\* __hoursToTime(val, shift, summer_time); shift.value is in tenths of a
\* second, so that shift / 3600 hours are shift.value / HourUnit hours
hoursToTime(val, shift, summer_time) ==
    IF ~isNumeric(shift) THEN Raised("ShiftException")
    ELSE time(floorHours(val + shift.value) + (IF summer_time THEN 1 ELSE 0),
              floorMinutes(val + shift.value),
              floorSeconds(val + shift.value))

\* dohr - t and dohr + t, where t may have raised
before(dohr, t) == IF t.exc # "none" THEN t ELSE Val(dohr - t.val)
after(dohr, t) == IF t.exc # "none" THEN t ELSE Val(dohr + t.val)

\* the decimal-hour value each accessor computes before it calls __hoursToTime
fajrHours(c, p) == before(dohrHours(c, p), prayerTime(c, p, c.fajrZenith))

sherookHours(c, p) == before(dohrHours(c, p), prayerTime(c, p, c.sherookZenith))

asrHoursOf(c, p, z) ==
    IF z.exc # "none" THEN z ELSE after(dohrHours(c, p), prayerTime(c, p, z.val))

asrHours(c, p) == asrHoursOf(c, p, asrZenith(c, p))

maghrebHours(c, p) == after(dohrHours(c, p), prayerTime(c, p, c.maghrebZenith))

\* ishaa_t = self.__dohrTime(), followed by an expression statement whose
\* value is dropped: it can raise, and adds nothing
dropped(ishaa_t, t) == IF t.exc # "none" THEN t ELSE Val(ishaa_t)

\* In the Umm al-Qura branch the assignment ends at the end of its line:
\* ishaa_t is __dohrTime(), and the next line, + __prayerTime(...) + 2.0 (or
\* + 1.5 outside Ramadan), is the dropped expression statement.
ishaaHours(c, p) ==
    IF c.ishaaZenith = None
    THEN IF HijriMonth(p.date, p.correction_val) = 9
         THEN dropped(dohrHours(c, p),
                      after(2 * HourUnit, prayerTime(c, p, c.maghrebZenith)))
         ELSE dropped(dohrHours(c, p),
                      after((3 * HourUnit) \div 2,
                            prayerTime(c, p, c.maghrebZenith)))
    ELSE after(dohrHours(c, p), prayerTime(c, p, c.ishaaZenith))

\* an accessor's outcome: its argument expression is evaluated (and may raise)
\* before __hoursToTime looks at the shift
convert(h, shift, summer_time) ==
    IF h.exc # "none" THEN Raised(h.exc)
    ELSE hoursToTime(h.val, shift, summer_time)

\* the six public accessors' outcomes
fajrTimeOutcome(c, p, shift) == convert(fajrHours(c, p), shift, c.summerTime)
sherookTimeOutcome(c, p, shift) == convert(sherookHours(c, p), shift, c.summerTime)
dohrTimeOutcome(c, p, shift) == convert(Val(dohrHours(c, p)), shift, c.summerTime)
asrTimeOutcome(c, p, shift) == convert(asrHours(c, p), shift, c.summerTime)
maghrebTimeOutcome(c, p, shift) == convert(maghrebHours(c, p), shift, c.summerTime)
ishaaTimeOutcome(c, p, shift) == convert(ishaaHours(c, p), shift, c.summerTime)

(***************************************************************************)
(* The inputs.                                                             *)
(***************************************************************************)
MaxZenithRef == 6
MaxAsrMadhab == 3
MaxCorrection == 3

\* <<longitude, latitude, timezone>>: Cairo, Helsinki, Quito
Locations ==
    { <<31200, 30000, 2000>>, <<24940, 60170, 2000>>, <<-78500, -200, -5000>> }

\* 2000-01-07 (two days before the end of Ramadan 1420) and 2000-06-21
Dates == {6, 172}

\* the default 0.0, three hours, minus four hours and half a second, a text
Shifts ==
    { [type |-> "float", value |-> 0], [type |-> "int", value |-> 108000],
      [type |-> "float", value |-> -144005], [type |-> "str", value |-> 0] }

Accessors ==
    {"fajrTime", "sherookTime", "dohrTime", "asrTime", "maghrebTime",
     "ishaaTime"}

VARIABLES
    conf,      \* the PrayerConf object, or null
    prayer,    \* the Prayer object, or null
    call,      \* the last call and its arguments
    result     \* what the last call did

vars == <<conf, prayer, call, result>>

Init ==
    /\ conf = null
    /\ prayer = null
    /\ call = [op |-> "none"]
    /\ result = Done

NewPrayerConf(loc, zenith_ref, asr_madhab, enable_summer_time) ==
    /\ conf = null
    /\ conf' = PrayerConf(loc[1], loc[2], loc[3], zenith_ref, asr_madhab,
                          enable_summer_time)
    /\ call' = [op |-> "PrayerConf", zenith_ref |-> zenith_ref,
                asr_madhab |-> asr_madhab]
    /\ result' = Done
    /\ UNCHANGED prayer

NewPrayer(dat, correction_val) ==
    /\ conf # null
    /\ prayer = null
    /\ call' = [op |-> "Prayer", correction_val |-> correction_val]
    /\ IF correctionValid(correction_val)
       THEN prayer' = Prayer(dat, correction_val) /\ result' = Done
       ELSE prayer' = null /\ result' = Raised("CorrectionValueException")
    /\ UNCHANGED conf

fajrTime(shift) ==
    /\ prayer # null
    /\ result' = fajrTimeOutcome(conf, prayer, shift)
    /\ call' = [op |-> "fajrTime", shift |-> shift]
    /\ UNCHANGED <<conf, prayer>>

sherookTime(shift) ==
    /\ prayer # null
    /\ result' = sherookTimeOutcome(conf, prayer, shift)
    /\ call' = [op |-> "sherookTime", shift |-> shift]
    /\ UNCHANGED <<conf, prayer>>

dohrTime(shift) ==
    /\ prayer # null
    /\ result' = dohrTimeOutcome(conf, prayer, shift)
    /\ call' = [op |-> "dohrTime", shift |-> shift]
    /\ UNCHANGED <<conf, prayer>>

asrTime(shift) ==
    /\ prayer # null
    /\ result' = asrTimeOutcome(conf, prayer, shift)
    /\ call' = [op |-> "asrTime", shift |-> shift]
    /\ UNCHANGED <<conf, prayer>>

maghrebTime(shift) ==
    /\ prayer # null
    /\ result' = maghrebTimeOutcome(conf, prayer, shift)
    /\ call' = [op |-> "maghrebTime", shift |-> shift]
    /\ UNCHANGED <<conf, prayer>>

\* an ishaaTime that writes the zenith it used back into the configuration
ishaaTimeStoringZenith(shift) ==
    /\ prayer # null
    /\ result' = ishaaTimeOutcome(conf, prayer, shift)
    /\ call' = [op |-> "ishaaTime", shift |-> shift]
    /\ conf' = IF conf.ishaaZenith = None
               THEN [conf EXCEPT !.ishaaZenith = conf.maghrebZenith]
               ELSE conf
    /\ UNCHANGED prayer

ishaaTime(shift) ==
    /\ prayer # null
    /\ result' = ishaaTimeOutcome(conf, prayer, shift)
    /\ call' = [op |-> "ishaaTime", shift |-> shift]
    /\ UNCHANGED <<conf, prayer>>

Next ==
    \/ \E loc \in Locations, zenith_ref \in 0..MaxZenithRef,
          asr_madhab \in 0..MaxAsrMadhab, enable_summer_time \in BOOLEAN :
          NewPrayerConf(loc, zenith_ref, asr_madhab, enable_summer_time)
    \/ \E dat \in Dates, correction_val \in (-MaxCorrection)..MaxCorrection :
          NewPrayer(dat, correction_val)
    \/ \E shift \in Shifts : fajrTime(shift)
    \/ \E shift \in Shifts : sherookTime(shift)
    \/ \E shift \in Shifts : dohrTime(shift)
    \/ \E shift \in Shifts : asrTime(shift)
    \/ \E shift \in Shifts : maghrebTime(shift)
    \/ \E shift \in Shifts : ishaaTime(shift)

Spec == Init /\ [][Next]_vars

(***************************************************************************)
(* The properties.                                                         *)
(***************************************************************************)
IsAccessor == call.op \in Accessors

\* the shift is an integer or a real
ShiftIsNumber(shift) == shift.type = "int" \/ shift.type = "float"

\* the decimal-hour value the accessor op hands to __hoursToTime
hoursOf(op, c, p) ==
    CASE op = "fajrTime" -> fajrHours(c, p)
      [] op = "sherookTime" -> sherookHours(c, p)
      [] op = "dohrTime" -> Val(dohrHours(c, p))
      [] op = "asrTime" -> asrHours(c, p)
      [] op = "maghrebTime" -> maghrebHours(c, p)
      [] op = "ishaaTime" -> ishaaHours(c, p)

outcomeOf(op, c, p, shift) ==
    CASE op = "fajrTime" -> fajrTimeOutcome(c, p, shift)
      [] op = "sherookTime" -> sherookTimeOutcome(c, p, shift)
      [] op = "dohrTime" -> dohrTimeOutcome(c, p, shift)
      [] op = "asrTime" -> asrTimeOutcome(c, p, shift)
      [] op = "maghrebTime" -> maghrebTimeOutcome(c, p, shift)
      [] op = "ishaaTime" -> ishaaTimeOutcome(c, p, shift)

\* every decimal-hour value of the engine can be computed
AllDefined(c, p) ==
    \A op \in Accessors : hoursOf(op, c, p).exc = "none"

\* C1: with the Umm al-Qura method (no Ishaa zenith) the decimal-hour value
\* ishaaTime converts is the Maghreb value plus 2.0 hours in Ramadan (Hijri
\* month 9) and plus 1.5 hours in every other month.
C1_IshaaIsMaghrebPlusOffset ==
    (/\ call.op = "ishaaTime"
     /\ conf.ishaaZenith = None
     /\ maghrebHours(conf, prayer).exc = "none")
    => ishaaHours(conf, prayer) =
           Val(maghrebHours(conf, prayer).val
               + (IF HijriMonth(prayer.date, prayer.correction_val) = 9
                  THEN 2 * HourUnit ELSE (3 * HourUnit) \div 2))

\* C2: whenever all six decimal-hour values can be computed they are strictly
\* ordered, Fajr < Sherook < Dohr < Asr < Maghreb < Ishaa.
C2_StrictOrder ==
    (prayer # null /\ AllDefined(conf, prayer))
    => /\ fajrHours(conf, prayer).val < sherookHours(conf, prayer).val
       /\ sherookHours(conf, prayer).val < dohrHours(conf, prayer)
       /\ dohrHours(conf, prayer) < asrHours(conf, prayer).val
       /\ asrHours(conf, prayer).val < maghrebHours(conf, prayer).val
       /\ maghrebHours(conf, prayer).val < ishaaHours(conf, prayer).val

\* The order of C2 for the four angle-based methods (an Ishaa zenith is set).
OrderWithIshaaZenith ==
    prayer = null \/ conf.ishaaZenith = None \/ C2_StrictOrder

\* C3: an accessor called with a numeric shift, its decimal-hour value v
\* computed, returns the clock time whose hour is floor(v + shift) plus the
\* summer hour, whatever that hour is (24 or more, or negative).
C3_NumericShiftReturnsTime ==
    (/\ IsAccessor
     /\ ShiftIsNumber(call.shift)
     /\ hoursOf(call.op, conf, prayer).exc = "none")
    => /\ result.kind = "time"
       /\ result.hour =
              (hoursOf(call.op, conf, prayer).val + call.shift.value)
                  \div HourUnit
              + (IF conf.summerTime THEN 1 ELSE 0)

\* C4: where the configuration with summer time disabled returns (h, m, s),
\* the same configuration with summer time enabled returns (h + 1, m, s).
C4_SummerTimeAddsOneHour ==
    (IsAccessor /\ ShiftIsNumber(call.shift))
    => LET off == outcomeOf(call.op, [conf EXCEPT !.summerTime = FALSE],
                            prayer, call.shift)
           on == outcomeOf(call.op, [conf EXCEPT !.summerTime = TRUE],
                           prayer, call.shift)
       IN  /\ result = (IF conf.summerTime THEN on ELSE off)
           /\ off.kind = "time"
               => on = [kind |-> "time", hour |-> off.hour + 1,
                        minute |-> off.minute, second |-> off.second]

\* C5: constructing a Prayer succeeds and stores correction_val exactly when
\* correction_val is one of -2, -1, 0, 1, 2; otherwise it raises and there is
\* no engine; no accessor call changes the stored value.
C5_CorrectionValue ==
    /\ [](call.op = "Prayer"
           => IF call.correction_val \in {-2, -1, 0, 1, 2}
              THEN /\ result = Done
                   /\ prayer # null
                   /\ prayer.correction_val = call.correction_val
              ELSE /\ result = Raised("CorrectionValueException")
                   /\ prayer = null)
    /\ [](prayer # null => prayer.correction_val \in {-2, -1, 0, 1, 2})
    /\ [][call'.op \in Accessors
            => prayer'.correction_val = prayer.correction_val]_vars

C5_Witness == IsAccessor /\ prayer.correction_val = -2

\* C6 as stated: in every configuration an accessor called with a shift that
\* is not numeric raises the invalid-shift condition.
C6_TextShiftAlwaysRaisesShiftException ==
    (IsAccessor /\ ~ShiftIsNumber(call.shift)) => result = Raised("ShiftException")

\* C6 as amended: an accessor called with a shift that is not numeric returns
\* no clock time; it raises the invalid-shift condition when its decimal-hour
\* value can be computed, and otherwise the error of that computation (the
\* argument is evaluated before the shift is looked at); the failing call
\* leaves the configuration and the engine as they were.
C6_TextShiftRaises ==
    /\ []((IsAccessor /\ ~ShiftIsNumber(call.shift))
           => IF hoursOf(call.op, conf, prayer).exc = "none"
              THEN result = Raised("ShiftException")
              ELSE result = Raised(hoursOf(call.op, conf, prayer).exc))
    /\ [][(call'.op \in Accessors /\ ~ShiftIsNumber(call'.shift))
            => (conf' = conf /\ prayer' = prayer)]_vars

C6_Witness ==
    /\ call.op = "ishaaTime"
    /\ ~ShiftIsNumber(call.shift)
    /\ hoursOf(call.op, conf, prayer).exc = "none"
    /\ result = Raised("ShiftException")

\* C7: PrayerConf never fails; a zenith_ref outside 1..5 gives the zeniths of
\* method 3 (109.5, 107.5), an asr_madhab other than 2 gives asrMadhab 1;
\* asrMadhab is 1 or 2, the zeniths are a row of the table, and the Ishaa
\* zenith is absent only for zenith_ref 4.
C7_ConfResolution ==
    /\ call.op = "PrayerConf"
       => /\ result = Done
          /\ conf # null
          /\ call.zenith_ref \notin 1..5
                 => <<conf.fajrZenith, conf.ishaaZenith>> = <<109500, 107500>>
          /\ conf.asrMadhab = (IF call.asr_madhab = 2 THEN 2 ELSE 1)
          /\ conf.ishaaZenith = None <=> call.zenith_ref = 4
    /\ conf # null
       => /\ conf.asrMadhab \in {1, 2}
          /\ <<conf.fajrZenith, conf.ishaaZenith>> \in
                 { <<108000, 108000>>, <<108000, 107000>>, <<109500, 107500>>,
                   <<108500, None>>, <<105000, 105000>> }

C7_Witness ==
    /\ call.op = "PrayerConf"
    /\ call.zenith_ref > 5
    /\ call.asr_madhab = 3
    /\ conf.fajrZenith = 109500

\* the value __asrZenith returns for a madhab factor, and the degree measure
\* of atan(madhab + 1 / tan(noon altitude))
asrZenithFor(madhab) ==
    asrZenithAt(conf.latitude, madhab, sunDeclination(prayer))

atanShadow(madhab) ==
    Degrees(atan(madhab * Unit
                 + (Unit * Unit)
                   \div tan(atan(noonAltitude(conf.latitude,
                                              sunDeclination(prayer)).val))))

\* C8 as stated: the Asr zenith returned for Hanafi (factor 2) is at least
\* the one returned for Shafii (factor 1), the returned value being 90
\* degrees minus the degree measure of atan(madhab + 1 / tan(noon altitude)).
C8_HanafiAtLeastShafii ==
    (prayer # null /\ asrZenithFor(1).exc = "none"
                   /\ asrZenithFor(2).exc = "none")
    => /\ asrZenithFor(2).val >= asrZenithFor(1).val
       /\ \A m \in {1, 2} :
              Abs(asrZenithFor(m).val - (90 * MilliDeg - atanShadow(m))) <= 1

\* C8 as amended: the value returned for Hanafi is at most the one returned
\* for Shafii, the returned value being minus the degree measure of
\* atan(madhab + 1 / tan(noon altitude)) (to a millidegree).
C8_HanafiAtMostShafii ==
    (prayer # null /\ asrZenithFor(1).exc = "none"
                   /\ asrZenithFor(2).exc = "none")
    => /\ asrZenithFor(2).val <= asrZenithFor(1).val
       /\ \A m \in {1, 2} : Abs(asrZenithFor(m).val + atanShadow(m)) <= 1

C8_Witness ==
    /\ call.op = "asrTime"
    /\ asrZenithFor(1).exc = "none"
    /\ asrZenithFor(2).exc = "none"
    /\ asrZenithFor(2).val < asrZenithFor(1).val

\* C9: a returned clock time (h, m, s), the summer hour taken off, is the
\* floor of v = decimalHours + shift / 3600 to the hour, the minute and the
\* second: 0 <= m <= 59, 0 <= s <= 59, h:m:s <= v < h:m:s plus one second;
\* and the converter returns whenever floor(v) plus the summer hour is an
\* hour of the day.
C9_FloorDecomposition ==
    (/\ IsAccessor
     /\ ShiftIsNumber(call.shift)
     /\ hoursOf(call.op, conf, prayer).exc = "none")
    => LET v == hoursOf(call.op, conf, prayer).val + call.shift.value
           st == IF conf.summerTime THEN 1 ELSE 0
           second == HourUnit \div 3600
       IN  /\ result.kind = "time"
               => /\ result.minute \in 0..59
                  /\ result.second \in 0..59
                  /\ (result.hour - st) * HourUnit <= v
                  /\ v < (result.hour - st + 1) * HourUnit
                  /\ (result.hour - st) * HourUnit
                     + result.minute * 60 * second <= v
                  /\ v < (result.hour - st) * HourUnit
                         + (result.minute + 1) * 60 * second
                  /\ (result.hour - st) * HourUnit
                     + result.minute * 60 * second
                     + result.second * second <= v
                  /\ v < (result.hour - st) * HourUnit
                         + result.minute * 60 * second
                         + (result.second + 1) * second
           /\ (\E h \in 0..23 :
                  (h - st) * HourUnit <= v /\ v < (h - st + 1) * HourUnit)
               => result.kind = "time"

C9_Witness ==
    /\ IsAccessor
    /\ result.kind = "time"
    /\ conf.summerTime
    /\ call.shift.value % 10 # 0

\* C10: an accessor call, failing or not, changes neither the configuration
\* nor the engine, and its result is the one the accessor gives for these
\* arguments on the engine as it was constructed.
C10_AccessorsArePure ==
    [][call'.op \in Accessors
        => /\ conf' = conf
           /\ prayer' = prayer
           /\ result' = outcomeOf(call'.op, conf, prayer, call'.shift)]_vars

C10_Witness ==
    /\ call.op = "dohrTime"
    /\ result.kind = "time"
    /\ conf.ishaaZenith = None
====
